---- MODULE Spec2Model ----
(***************************************************************************)
(* A model of biomappings/resources/__init__.py: four tab-separated tables *)
(* (true mappings, false mappings, unsure mappings, predictions) with      *)
(* load / write / append / lint operations, prediction deduplication and   *)
(* filtering, and the two NamedTuple adapters.                             *)
(*                                                                         *)
(* A file is its text: a sequence of characters.  It is written with       *)
(* print(..., sep="\t"), which quotes and escapes nothing, and read        *)
(* with csv.reader(delimiter="\t"), which treats the double quote as a     *)
(* quote character.  A Python str is a sequence of characters too; a       *)
(* record (a Python dict) is a function from column names to strs.         *)
(***************************************************************************)
EXTENDS Integers, Sequences, FiniteSets, TLC

VARIABLES
    files,      \* path -> text of the file
    op,         \* the call that has just returned, with its arguments
    before,     \* the text of the files when that call was made
    loaded,     \* the outcome of the last load_* call
    adapter     \* a typed tuple, its as_dict() and the from_dict() of that

vars == <<files, op, before, loaded, adapter>>

-----------------------------------------------------------------------------
(* Bounds of the model *)

\* most data rows over the four tables together
MaxRows == 2
\* most records passed to one write / append call
MaxBatch == 2
\* most lines after the header in a file that is loaded
MaxLoadRows == 2

-----------------------------------------------------------------------------
(* Python str *)

\* the three characters the file format gives a meaning to
TAB == "\t"
NL == "\n"
QUOTE == "\""

\* The str made of one run of ordinary characters (neither tab, newline
\* nor double quote).  The column names are such runs; every other
\* ordinary character of the model stands alone, so that a str has one
\* representation.
Str(run) == <<run>>

\* The single characters of the model in code point order:
\* tab < newline < double quote < digits < upper case < lower case.
CharOrder ==
    << TAB, NL, QUOTE, "1", "5", "9", "M", "N", "T", "X", "a",
       "d", "m", "o", "r", "t", "u", "x", "y" >>

CharIndex ==
    [c \in {CharOrder[i] : i \in 1..Len(CharOrder)} |->
        CHOOSE i \in 1..Len(CharOrder) : CharOrder[i] = c]

Min(a, b) == IF a < b THEN a ELSE b

\* a < b for two strs: at the first place where they differ the character
\* of a is the smaller one, or a is a proper prefix of b
StrLess(a, b) ==
    LET n == Min(Len(a), Len(b))
        d == {i \in 1..n : a[i] # b[i]}
    IN  IF d = {}
        THEN Len(a) < Len(b)
        ELSE LET i == CHOOSE k \in d : \A h \in d : k <= h
             IN  CharIndex[a[i]] < CharIndex[b[i]]

\* a < b for two Python tuples of str of the same length
TupleLess(a, b) ==
    \E i \in 1..Len(a) :
        /\ \A j \in 1..(i - 1) : a[j] = b[j]
        /\ StrLess(a[i], b[i])

\* Python's None: equal to no str of the model
None == <<"None", "None">>

\* the empty dict {}
EmptyDict == [k \in {} |-> k]

\* no exception
NoError == ""

\* dict(zip(keys, values)): zip stops at the shorter sequence, and a key
\* that occurs twice keeps its last value
dict_zip(keys, values) ==
    LET n == Min(Len(keys), Len(values))
        Last(k) == CHOOSE i \in 1..n :
                       /\ keys[i] = k
                       /\ \A j \in {h \in 1..n : keys[h] = k} : j <= i
    IN  [k \in {keys[i] : i \in 1..n} |-> values[Last(k)]]

\* d.get(k, default)
dict_get(d, k, default) == IF k \in DOMAIN d THEN d[k] ELSE default

\* mapping[key] raises KeyError when the key is missing
HasKeys(mapping, header) == \A i \in 1..Len(header) : header[i] \in DOMAIN mapping

\* [mapping[key] for key in header]
values_in_order(mapping, header) == [i \in 1..Len(header) |-> mapping[header[i]]]

-----------------------------------------------------------------------------
(* Schema *)

MAPPINGS_HEADER ==
    << Str("source prefix"), Str("source identifier"), Str("source name"),
       Str("relation"), Str("target prefix"), Str("target identifier"),
       Str("target name"), Str("type"), Str("source") >>

PREDICTIONS_HEADER ==
    << Str("source prefix"), Str("source identifier"), Str("source name"),
       Str("relation"), Str("target prefix"), Str("target identifier"),
       Str("target name"), Str("type"), Str("confidence"), Str("source") >>

TRUE_MAPPINGS_PATH == "mappings.tsv"
FALSE_MAPPINGS_PATH == "incorrect.tsv"
UNSURE_PATH == "unsure.tsv"
PREDICTIONS_PATH == "predictions.tsv"

Paths == {TRUE_MAPPINGS_PATH, FALSE_MAPPINGS_PATH, UNSURE_PATH, PREDICTIONS_PATH}

HeaderOf(path) ==
    IF path = PREDICTIONS_PATH THEN PREDICTIONS_HEADER ELSE MAPPINGS_HEADER

-----------------------------------------------------------------------------
(* Table codec *)

\* the strs joined by tabs
RECURSIVE join_tab(_)
join_tab(fields) ==
    IF fields = <<>> THEN <<>>
    ELSE IF Len(fields) = 1 THEN fields[1]
    ELSE fields[1] \o <<TAB>> \o join_tab(Tail(fields))

\* print of the fields with sep="\t": the text of one line.  Nothing is
\* quoted or escaped.
print_sep_tab(fields) == join_tab(fields) \o <<NL>>

\* the lines one after the other
RECURSIVE print_lines(_)
print_lines(rows) ==
    IF rows = <<>> THEN <<>>
    ELSE print_sep_tab(rows[1]) \o print_lines(Tail(rows))

\* The reader of csv.reader(fh, delimiter="\t") before the first character:
\* its state, the field and the row it is building, the rows it has yielded.
\* The dialect is the default one: quote character ", doublequote, not
\* strict.
reader_start == [state |-> "START_RECORD", field |-> <<>>, row |-> <<>>, rows |-> <<>>]

\* The reader after the character c.  A double quote at the start of a
\* field opens a quoted field, in which tabs and newlines are data and ""
\* is one double quote; after the closing quote further characters are
\* added to the field.  A double quote elsewhere is data.  A newline
\* outside a quoted field ends the row; a blank line is a row without
\* fields.
process_char(p, c) ==
    CASE p.state \in {"START_RECORD", "START_FIELD"} ->
           IF c = NL
           THEN [state |-> "START_RECORD", field |-> <<>>, row |-> <<>>,
                 rows |-> Append(p.rows, IF p.state = "START_RECORD"
                                         THEN <<>>
                                         ELSE Append(p.row, <<>>))]
           ELSE IF c = QUOTE
           THEN [p EXCEPT !.state = "IN_QUOTED_FIELD", !.field = <<>>]
           ELSE IF c = TAB
           THEN [p EXCEPT !.state = "START_FIELD", !.field = <<>>,
                          !.row = Append(p.row, <<>>)]
           ELSE [p EXCEPT !.state = "IN_FIELD", !.field = <<c>>]
      [] p.state = "IN_FIELD" ->
           IF c = NL
           THEN [state |-> "START_RECORD", field |-> <<>>, row |-> <<>>,
                 rows |-> Append(p.rows, Append(p.row, p.field))]
           ELSE IF c = TAB
           THEN [p EXCEPT !.state = "START_FIELD", !.field = <<>>,
                          !.row = Append(p.row, p.field)]
           ELSE [p EXCEPT !.field = Append(p.field, c)]
      [] p.state = "IN_QUOTED_FIELD" ->
           IF c = QUOTE
           THEN [p EXCEPT !.state = "QUOTE_IN_QUOTED_FIELD"]
           ELSE [p EXCEPT !.field = Append(p.field, c)]
      [] OTHER ->  \* QUOTE_IN_QUOTED_FIELD
           IF c = QUOTE
           THEN [p EXCEPT !.state = "IN_QUOTED_FIELD", !.field = Append(p.field, c)]
           ELSE IF c = TAB
           THEN [p EXCEPT !.state = "START_FIELD", !.field = <<>>,
                          !.row = Append(p.row, p.field)]
           ELSE IF c = NL
           THEN [state |-> "START_RECORD", field |-> <<>>, row |-> <<>>,
                 rows |-> Append(p.rows, Append(p.row, p.field))]
           ELSE [p EXCEPT !.state = "IN_FIELD", !.field = Append(p.field, c)]

\* the reader after the characters lo..hi of the text, one after the other
\* (the first half is worked out before the second is begun)
RECURSIVE process_text(_, _, _, _)
process_text(p, text, lo, hi) ==
    IF lo > hi THEN p
    ELSE IF lo = hi THEN process_char(p, text[lo])
    ELSE LET mid == (lo + hi) \div 2
             half == process_text(p, text, lo, mid)
         IN  IF half.state = "" THEN half ELSE process_text(half, text, mid + 1, hi)

\* list(csv.reader(fh, delimiter="\t")): at the end of the text a row that
\* was begun is yielded as it stands
csv_reader(text) ==
    LET p == process_text(reader_start, text, 1, Len(text))
    IN  IF p.state = "START_RECORD"
        THEN p.rows
        ELSE Append(p.rows, Append(p.row, p.field))

\* a loader that leaves out the rows whose field count is not the header's
_load_table_strict(file) ==
    LET rows == csv_reader(file)
        good == SelectSeq(SubSeq(rows, 2, Len(rows)),
                          LAMBDA row : Len(row) = Len(rows[1]))
    IN  IF rows = <<>>
        THEN [raised |-> "StopIteration", value |-> <<>>]
        ELSE [raised |-> NoError,
              value |-> [i \in 1..Len(good) |-> dict_zip(rows[1], good[i])]]

\* _load_table: the header is the first row the reader yields; every other
\* row becomes dict(zip(header, row)).  No field count is checked.
\* next(reader) on a text without any row raises StopIteration.
_load_table(file) ==
    LET rows == csv_reader(file)
    IN  IF rows = <<>>
        THEN [raised |-> "StopIteration", value |-> <<>>]
        ELSE [raised |-> NoError,
              value |-> [i \in 1..(Len(rows) - 1) |-> dict_zip(rows[1], rows[i + 1])]]

\* the columns of the sort key
SortColumns ==
    << Str("source prefix"), Str("source identifier"), Str("relation"),
       Str("target prefix"), Str("target identifier"), Str("type"), Str("source") >>

mapping_sort_key(prediction) ==
    << prediction[Str("source prefix")], prediction[Str("source identifier")],
       prediction[Str("relation")], prediction[Str("target prefix")],
       prediction[Str("target identifier")], prediction[Str("type")],
       prediction[Str("source")] >>

\* sorted(lod, key=mapping_sort_key) raises KeyError when a record lacks a
\* column of the key
sorted_raises(lod) == \E i \in 1..Len(lod) : ~HasKeys(lod[i], SortColumns)

\* one step of the stable sort: x goes after every element whose key is
\* not greater than its own
insert_stable(s, x) ==
    LET n == Cardinality({i \in 1..Len(s) :
                 ~TupleLess(mapping_sort_key(x), mapping_sort_key(s[i]))})
    IN  SubSeq(s, 1, n) \o <<x>> \o SubSeq(s, n + 1, Len(s))

\* sorted(lod, key=mapping_sort_key): ascending and stable
RECURSIVE sorted(_)
sorted(lod) ==
    IF lod = <<>> THEN <<>>
    ELSE insert_stable(sorted(SubSeq(lod, 1, Len(lod) - 1)), lod[Len(lod)])

\* _write_helper: the text of the file at path after the call, given its
\* text before, and the exception the call ends with.  The records are
\* sorted before the file is opened; mode "w" truncates and prints the
\* header, mode "a" prints after the present text.  A record that lacks a
\* column of the header ends the call with the lines before it written.
_write_helper(header, lod, file, mode) ==
    IF sorted_raises(lod)
    THEN [file |-> file, raised |-> "KeyError"]
    ELSE LET s == sorted(lod)
             bad == {i \in 1..Len(s) : ~HasKeys(s[i], header)}
             n == IF bad = {}
                  THEN Len(s)
                  ELSE (CHOOSE k \in bad : \A h \in bad : k <= h) - 1
             opened == IF mode = "w" THEN print_sep_tab(header) ELSE file
             rows == [i \in 1..n |-> values_in_order(s[i], header)]
         IN  [file |-> opened \o print_lines(rows),
              raised |-> IF bad = {} THEN NoError ELSE "KeyError"]

\* sorted(load_x(), key=mapping_sort_key), given the outcome l of load_x()
sorted_table(l) ==
    IF l.raised # NoError THEN l
    ELSE IF sorted_raises(l.value) THEN [raised |-> "KeyError", value |-> <<>>]
    ELSE [raised |-> NoError, value |-> sorted(l.value)]

-----------------------------------------------------------------------------
(* Canonicalization (biomappings.utils) *)

\* get_canonical_tuple: the 7-field canonical key of a record
get_canonical_tuple(t) ==
    << t[Str("source prefix")], t[Str("source identifier")], t[Str("relation")],
       t[Str("target prefix")], t[Str("target identifier")], t[Str("type")],
       t[Str("source")] >>

-----------------------------------------------------------------------------
(* Per-table repositories.  fs is the text of all files before the call;   *)
(* the result is their text after it and the exception it ended with.      *)

load_mappings(fs) == _load_table(fs[TRUE_MAPPINGS_PATH])

write_true_mappings(fs, m) ==
    LET w == _write_helper(MAPPINGS_HEADER, m, fs[TRUE_MAPPINGS_PATH], "w")
    IN  [files |-> [fs EXCEPT ![TRUE_MAPPINGS_PATH] = w.file], raised |-> w.raised]

append_true_mappings(fs, m, sort) ==
    LET a == _write_helper(MAPPINGS_HEADER, m, fs[TRUE_MAPPINGS_PATH], "a")
        appended == [fs EXCEPT ![TRUE_MAPPINGS_PATH] = a.file]
        s == sorted_table(load_mappings(appended))
    IN  IF a.raised # NoError \/ ~sort
        THEN [files |-> appended, raised |-> a.raised]
        ELSE IF s.raised # NoError
        THEN [files |-> appended, raised |-> s.raised]
        ELSE write_true_mappings(appended, s.value)

lint_true_mappings(fs) ==
    LET s == sorted_table(load_mappings(fs))
    IN  IF s.raised # NoError
        THEN [files |-> fs, raised |-> s.raised]
        ELSE write_true_mappings(fs, s.value)

load_false_mappings(fs) == _load_table(fs[FALSE_MAPPINGS_PATH])

write_false_mappings(fs, m) ==
    LET w == _write_helper(MAPPINGS_HEADER, m, fs[FALSE_MAPPINGS_PATH], "w")
    IN  [files |-> [fs EXCEPT ![FALSE_MAPPINGS_PATH] = w.file], raised |-> w.raised]

append_false_mappings(fs, m, sort) ==
    LET a == _write_helper(MAPPINGS_HEADER, m, fs[FALSE_MAPPINGS_PATH], "a")
        appended == [fs EXCEPT ![FALSE_MAPPINGS_PATH] = a.file]
        s == sorted_table(load_false_mappings(appended))
    IN  IF a.raised # NoError \/ ~sort
        THEN [files |-> appended, raised |-> a.raised]
        ELSE IF s.raised # NoError
        THEN [files |-> appended, raised |-> s.raised]
        ELSE write_false_mappings(appended, s.value)

lint_false_mappings(fs) ==
    LET s == sorted_table(load_false_mappings(fs))
    IN  IF s.raised # NoError
        THEN [files |-> fs, raised |-> s.raised]
        ELSE write_false_mappings(fs, s.value)

load_unsure(fs) == _load_table(fs[UNSURE_PATH])

write_unsure_mappings(fs, m) ==
    LET w == _write_helper(MAPPINGS_HEADER, m, fs[UNSURE_PATH], "w")
    IN  [files |-> [fs EXCEPT ![UNSURE_PATH] = w.file], raised |-> w.raised]

append_unsure_mappings(fs, m, sort) ==
    LET a == _write_helper(MAPPINGS_HEADER, m, fs[UNSURE_PATH], "a")
        appended == [fs EXCEPT ![UNSURE_PATH] = a.file]
        s == sorted_table(load_unsure(appended))
    IN  IF a.raised # NoError \/ ~sort
        THEN [files |-> appended, raised |-> a.raised]
        ELSE IF s.raised # NoError
        THEN [files |-> appended, raised |-> s.raised]
        ELSE write_unsure_mappings(appended, s.value)

lint_unsure_mappings(fs) ==
    LET s == sorted_table(load_unsure(fs))
    IN  IF s.raised # NoError
        THEN [files |-> fs, raised |-> s.raised]
        ELSE write_unsure_mappings(fs, s.value)

load_predictions(fs) == _load_table(fs[PREDICTIONS_PATH])

write_predictions(fs, m) ==
    LET w == _write_helper(PREDICTIONS_HEADER, m, fs[PREDICTIONS_PATH], "w")
    IN  [files |-> [fs EXCEPT ![PREDICTIONS_PATH] = w.file], raised |-> w.raised]

\* the elements of the sequences in order: itt.chain(a, b, c)
chain(a, b, c) == a \o b \o c

\* append_predictions: with deduplicate, the three tables are loaded and
\* the canonical tuples of their records collected before anything is
\* written; the incoming records whose canonical tuple is among them are
\* dropped.  The rest is an append as for the other tables.
append_predictions(fs, mappings, deduplicate, sort) ==
    LET l1 == load_mappings(fs)
        l2 == load_false_mappings(fs)
        l3 == load_predictions(fs)
        load_raised == IF l1.raised # NoError THEN l1.raised
                       ELSE IF l2.raised # NoError THEN l2.raised
                       ELSE l3.raised
        all == chain(l1.value, l2.value, l3.value)
        existing_mappings == {get_canonical_tuple(all[i]) : i \in 1..Len(all)}
        Fresh(mapping) == get_canonical_tuple(mapping) \notin existing_mappings
        kept == IF deduplicate THEN SelectSeq(mappings, Fresh) ELSE mappings
        a == _write_helper(PREDICTIONS_HEADER, kept, fs[PREDICTIONS_PATH], "a")
        appended == [fs EXCEPT ![PREDICTIONS_PATH] = a.file]
        s == sorted_table(load_predictions(appended))
    IN  IF deduplicate /\ load_raised # NoError
        THEN [files |-> fs, raised |-> load_raised]
        ELSE IF deduplicate /\ (sorted_raises(all) \/ sorted_raises(mappings))
        THEN [files |-> fs, raised |-> "KeyError"]
        ELSE IF a.raised # NoError \/ ~sort
        THEN [files |-> appended, raised |-> a.raised]
        ELSE IF s.raised # NoError
        THEN [files |-> appended, raised |-> s.raised]
        ELSE write_predictions(appended, s.value)

lint_predictions(fs) ==
    LET s == sorted_table(load_predictions(fs))
    IN  IF s.raised # NoError
        THEN [files |-> fs, raised |-> s.raised]
        ELSE write_predictions(fs, s.value)

\* the columns _check_filter reads
FilterColumns ==
    << Str("source prefix"), Str("target prefix"),
       Str("source identifier"), Str("target identifier") >>

_check_filter(prediction, custom_filter) ==
    LET source_prefix == prediction[Str("source prefix")]
        target_prefix == prediction[Str("target prefix")]
        source_id == prediction[Str("source identifier")]
        target_id == prediction[Str("target identifier")]
    IN  target_id # dict_get(dict_get(dict_get(custom_filter, source_prefix, EmptyDict),
                                      target_prefix, EmptyDict),
                             source_id, None)

filter_predictions(fs, custom_filter) ==
    LET l == load_predictions(fs)
        Keep(prediction) == _check_filter(prediction, custom_filter)
    IN  IF l.raised # NoError
        THEN [files |-> fs, raised |-> l.raised]
        ELSE IF \E i \in 1..Len(l.value) : ~HasKeys(l.value[i], FilterColumns)
        THEN [files |-> fs, raised |-> "KeyError"]
        ELSE write_predictions(fs, SelectSeq(l.value, Keep))

-----------------------------------------------------------------------------
(* Typed record adapters.  A NamedTuple is the sequence of its fields.     *)

\* an as_dict that zips with the header of the other schema
PredictionTuple_as_dict_wrong_header(self) == dict_zip(MAPPINGS_HEADER, self)

MappingTuple_as_dict(self) == dict_zip(MAPPINGS_HEADER, self)

MappingTuple_from_dict(mapping) == values_in_order(mapping, MAPPINGS_HEADER)

PredictionTuple_as_dict(self) == dict_zip(PREDICTIONS_HEADER, self)

PredictionTuple_from_dict(mapping) == values_in_order(mapping, PREDICTIONS_HEADER)

-----------------------------------------------------------------------------
(* Inputs: the records, batches and filters the operations are called with *)

\* a str in double quotes, as a spreadsheet exports it
Quoted(s) == <<QUOTE>> \o s \o <<QUOTE>>

\* a str in double quotes in which every double quote is doubled
Escaped(s) == <<QUOTE, QUOTE>> \o s \o <<QUOTE, QUOTE>>

\* A record is fixed by its source prefix, target identifier and source
\* name; the other fields are the same for all.  The first two have the
\* same canonical key and differ in the source name (and, as predictions,
\* in the confidence), and so have the third and the fourth.  Three hold
\* double quotes: in the source name, a quoted str in double quotes, and a
\* str with a double quote in front only; in the source prefix, a str in
\* double quotes, which sorts before the str without them.
Shapes ==
    { <<Str("d"), Str("x"), Str("N")>>,
      <<Str("d"), Str("x"), Quoted(Escaped(Str("M")))>>,
      <<Str("d"), Str("y"), Str("N")>>,
      <<Str("d"), Str("y"), <<QUOTE, "M">>>>,
      <<Quoted(Str("d")), Str("y"), Str("N")>> }

MappingRow(sh) ==
    << sh[1], Str("1"), sh[3], Str("r"), Str("u"), sh[2], Str("T"), Str("t"),
       Str("o") >>

PredictionRow(sh) ==
    << sh[1], Str("1"), sh[3], Str("r"), Str("u"), sh[2], Str("T"), Str("t"),
       IF sh[3] = Str("N") THEN Str("5") ELSE Str("9"), Str("o") >>

MappingRecords == {dict_zip(MAPPINGS_HEADER, MappingRow(sh)) : sh \in Shapes}

PredictionRecords == {dict_zip(PREDICTIONS_HEADER, PredictionRow(sh)) : sh \in Shapes}

\* the lists of at most n elements of S
SeqUpTo(S, n) == UNION {[1..k -> S] : k \in 0..n}

Dict1(k, v) == [x \in {k} |-> v]

\* custom filters: source prefix -> target prefix -> source identifier ->
\* target identifier, with every level present or missing
Filters ==
    { EmptyDict,
      Dict1(Str("d"), EmptyDict),
      Dict1(Str("d"), Dict1(Str("u"), EmptyDict)),
      Dict1(Str("d"), Dict1(Str("u"), Dict1(Str("1"), Str("x")))),
      Dict1(Str("d"), Dict1(Str("u"), Dict1(Str("x"), Str("x")))),
      Dict1(Str("u"), Dict1(Str("d"), Dict1(Str("1"), Str("x")))),
      [p \in {Str("d"), Str("m")} |-> Dict1(Str("u"), Dict1(Str("1"), Str("x")))] }

\* the lines of a text
Lines(text) == Cardinality({i \in 1..Len(text) : text[i] = NL})

\* the data lines of the four files
TotalRows(fs) ==
    (Lines(fs[TRUE_MAPPINGS_PATH]) - 1) + (Lines(fs[FALSE_MAPPINGS_PATH]) - 1)
        + (Lines(fs[UNSURE_PATH]) - 1) + (Lines(fs[PREDICTIONS_PATH]) - 1)

-----------------------------------------------------------------------------
(* The repository as a state machine.  The caller is one sequential       *)
(* process: it calls an operation, which runs to its end, looks at the     *)
(* outcome, and is then ready for the next call.                           *)

NoOp == [name |-> "none", records |-> <<>>, sort |-> FALSE,
         deduplicate |-> FALSE, custom_filter |-> EmptyDict, raised |-> NoError]

Call(name, records, sort, deduplicate, custom_filter) ==
    [name |-> name, records |-> records, sort |-> sort,
     deduplicate |-> deduplicate, custom_filter |-> custom_filter,
     raised |-> NoError]

NoLoad == [raised |-> NoError, value |-> <<>>, path |-> ""]

NoAdapter == [cls |-> "none", tuple |-> <<>>, dict |-> EmptyDict,
              back |-> <<>>, stage |-> "none"]

\* the four tables as shipped: a header and no row
EmptyTables == [path \in Paths |-> print_sep_tab(HeaderOf(path))]

Init ==
    /\ files = EmptyTables
    /\ op = NoOp
    /\ before = EmptyTables
    /\ loaded = NoLoad
    /\ adapter = NoAdapter

\* the caller is ready for a call
Idle == op.name = "none"

\* the bound of the model: a call is made when the rows it is given fit
\* beside the rows the four tables hold
Room(n) == TotalRows(files) + n <= MaxRows

\* the call ends with the outcome out
Returns(out, call) ==
    /\ files' = out.files
    /\ op' = [call EXCEPT !.raised = out.raised]
    /\ before' = files
    /\ UNCHANGED <<loaded, adapter>>

WriteTrueMappings ==
    /\ Idle
    /\ \E n \in 0..MaxBatch :
        /\ Room(n)
        /\ \E m \in [1..n -> MappingRecords] :
             Returns(write_true_mappings(files, m),
                     Call("write_true_mappings", m, FALSE, FALSE, EmptyDict))

AppendTrueMappings ==
    /\ Idle
    /\ \E n \in 0..MaxBatch :
        /\ Room(n)
        /\ \E m \in [1..n -> MappingRecords], sort \in BOOLEAN :
             Returns(append_true_mappings(files, m, sort),
                     Call("append_true_mappings", m, sort, FALSE, EmptyDict))

LintTrueMappings ==
    /\ Idle
    /\ Returns(lint_true_mappings(files),
               Call("lint_true_mappings", <<>>, FALSE, FALSE, EmptyDict))

WriteFalseMappings ==
    /\ Idle
    /\ \E n \in 0..MaxBatch :
        /\ Room(n)
        /\ \E m \in [1..n -> MappingRecords] :
             Returns(write_false_mappings(files, m),
                     Call("write_false_mappings", m, FALSE, FALSE, EmptyDict))

AppendFalseMappings ==
    /\ Idle
    /\ \E n \in 0..MaxBatch :
        /\ Room(n)
        /\ \E m \in [1..n -> MappingRecords], sort \in BOOLEAN :
             Returns(append_false_mappings(files, m, sort),
                     Call("append_false_mappings", m, sort, FALSE, EmptyDict))

LintFalseMappings ==
    /\ Idle
    /\ Returns(lint_false_mappings(files),
               Call("lint_false_mappings", <<>>, FALSE, FALSE, EmptyDict))

WriteUnsureMappings ==
    /\ Idle
    /\ \E n \in 0..MaxBatch :
        /\ Room(n)
        /\ \E m \in [1..n -> MappingRecords] :
             Returns(write_unsure_mappings(files, m),
                     Call("write_unsure_mappings", m, FALSE, FALSE, EmptyDict))

AppendUnsureMappings ==
    /\ Idle
    /\ \E n \in 0..MaxBatch :
        /\ Room(n)
        /\ \E m \in [1..n -> MappingRecords], sort \in BOOLEAN :
             Returns(append_unsure_mappings(files, m, sort),
                     Call("append_unsure_mappings", m, sort, FALSE, EmptyDict))

LintUnsureMappings ==
    /\ Idle
    /\ Returns(lint_unsure_mappings(files),
               Call("lint_unsure_mappings", <<>>, FALSE, FALSE, EmptyDict))

WritePredictions ==
    /\ Idle
    /\ \E n \in 0..MaxBatch :
        /\ Room(n)
        /\ \E m \in [1..n -> PredictionRecords] :
             Returns(write_predictions(files, m),
                     Call("write_predictions", m, FALSE, FALSE, EmptyDict))

AppendPredictions ==
    /\ Idle
    /\ \E n \in 0..MaxBatch :
        /\ Room(n)
        /\ \E m \in [1..n -> PredictionRecords], deduplicate \in BOOLEAN,
                 sort \in BOOLEAN :
             Returns(append_predictions(files, m, deduplicate, sort),
                     Call("append_predictions", m, sort, deduplicate, EmptyDict))

LintPredictions ==
    /\ Idle
    /\ Returns(lint_predictions(files),
               Call("lint_predictions", <<>>, FALSE, FALSE, EmptyDict))

FilterPredictions ==
    /\ Idle
    /\ \E custom_filter \in Filters :
        Returns(filter_predictions(files, custom_filter),
                Call("filter_predictions", <<>>, FALSE, FALSE, custom_filter))

\* the caller has seen the outcome and is ready for the next call
Ready ==
    /\ ~Idle
    /\ op' = NoOp
    /\ before' = files
    /\ UNCHANGED <<files, loaded, adapter>>

Next ==
    \/ WriteTrueMappings
    \/ AppendTrueMappings
    \/ LintTrueMappings
    \/ WriteFalseMappings
    \/ AppendFalseMappings
    \/ LintFalseMappings
    \/ WriteUnsureMappings
    \/ AppendUnsureMappings
    \/ LintUnsureMappings
    \/ WritePredictions
    \/ AppendPredictions
    \/ LintPredictions
    \/ FilterPredictions
    \/ Ready

Spec == Init /\ [][Next]_vars

-----------------------------------------------------------------------------
(* Loading files of any text *)

\* Lines as they may stand in a file after the header: a well formed row,
\* a row one field short, a row one field long (as a tab in a field makes
\* it), a blank line, a row with a field in double quotes, and a row with a
\* field that begins with a double quote and has no second one.
LoadLines(path) ==
    LET Row(sh) == IF path = PREDICTIONS_PATH THEN PredictionRow(sh) ELSE MappingRow(sh)
        good == Row(<<Str("d"), Str("x"), Str("N")>>)
    IN  { print_sep_tab(good),
          print_sep_tab(SubSeq(good, 1, Len(good) - 1)),
          print_sep_tab(Append(good, Str("X"))),
          <<NL>>,
          print_sep_tab(Row(<<Str("m"), Str("y"), Quoted(Str("M"))>>)),
          print_sep_tab(Row(<<Str("m"), Str("y"), <<QUOTE, "M">> >>)) }

RECURSIVE concat(_)
concat(texts) == IF texts = <<>> THEN <<>> ELSE texts[1] \o concat(Tail(texts))

\* the texts that are loaded: the empty file, and a header line followed by
\* some lines
LoadContents(path) ==
    {<<>>} \cup {print_sep_tab(HeaderOf(path)) \o concat(lines) :
                    lines \in SeqUpTo(LoadLines(path), MaxLoadRows)}

InitLoad ==
    /\ \E path \in Paths : \E content \in LoadContents(path) :
        /\ files = [EmptyTables EXCEPT ![path] = content]
        /\ before = [EmptyTables EXCEPT ![path] = content]
    /\ op = NoOp
    /\ loaded = NoLoad
    /\ adapter = NoAdapter

\* the outcome of a load_* call, with the path that was read
load_outcome(path, l) == [raised |-> l.raised, value |-> l.value, path |-> path]

LoadMappings ==
    /\ loaded.path = ""
    /\ loaded' = load_outcome(TRUE_MAPPINGS_PATH, load_mappings(files))
    /\ op' = Call("load_mappings", <<>>, FALSE, FALSE, EmptyDict)
    /\ UNCHANGED <<files, before, adapter>>

LoadFalseMappings ==
    /\ loaded.path = ""
    /\ loaded' = load_outcome(FALSE_MAPPINGS_PATH, load_false_mappings(files))
    /\ op' = Call("load_false_mappings", <<>>, FALSE, FALSE, EmptyDict)
    /\ UNCHANGED <<files, before, adapter>>

LoadUnsure ==
    /\ loaded.path = ""
    /\ loaded' = load_outcome(UNSURE_PATH, load_unsure(files))
    /\ op' = Call("load_unsure", <<>>, FALSE, FALSE, EmptyDict)
    /\ UNCHANGED <<files, before, adapter>>

LoadPredictions ==
    /\ loaded.path = ""
    /\ loaded' = load_outcome(PREDICTIONS_PATH, load_predictions(files))
    /\ op' = Call("load_predictions", <<>>, FALSE, FALSE, EmptyDict)
    /\ UNCHANGED <<files, before, adapter>>

NextLoad ==
    \/ LoadMappings
    \/ LoadFalseMappings
    \/ LoadUnsure
    \/ LoadPredictions

SpecLoad == InitLoad /\ [][NextLoad]_vars

-----------------------------------------------------------------------------
(* Converting typed tuples *)

TupleValues == {Str("a"), <<QUOTE, "a", TAB>>}

MappingTuples == [1..Len(MAPPINGS_HEADER) -> TupleValues]

PredictionTuples == [1..Len(PREDICTIONS_HEADER) -> TupleValues]

NewAdapter(cls, tuple) ==
    [cls |-> cls, tuple |-> tuple, dict |-> EmptyDict, back |-> <<>>, stage |-> "new"]

InitTuple ==
    /\ files = EmptyTables
    /\ op = NoOp
    /\ before = EmptyTables
    /\ loaded = NoLoad
    /\ \/ \E x \in MappingTuples : adapter = NewAdapter("MappingTuple", x)
       \/ \E y \in PredictionTuples : adapter = NewAdapter("PredictionTuple", y)

MappingTupleAsDict ==
    /\ adapter.cls = "MappingTuple"
    /\ adapter.stage = "new"
    /\ adapter' = [adapter EXCEPT !.dict = MappingTuple_as_dict(adapter.tuple),
                                  !.stage = "dict"]
    /\ UNCHANGED <<files, op, before, loaded>>

\* mapping[key] raises KeyError for a key the mapping does not have
MappingTupleFromDict ==
    /\ adapter.cls = "MappingTuple"
    /\ adapter.stage = "dict"
    /\ adapter' = IF HasKeys(adapter.dict, MAPPINGS_HEADER)
                  THEN [adapter EXCEPT !.back = MappingTuple_from_dict(adapter.dict),
                                       !.stage = "back"]
                  ELSE [adapter EXCEPT !.stage = "KeyError"]
    /\ UNCHANGED <<files, op, before, loaded>>

PredictionTupleAsDict ==
    /\ adapter.cls = "PredictionTuple"
    /\ adapter.stage = "new"
    /\ adapter' = [adapter EXCEPT !.dict = PredictionTuple_as_dict(adapter.tuple),
                                  !.stage = "dict"]
    /\ UNCHANGED <<files, op, before, loaded>>

PredictionTupleFromDict ==
    /\ adapter.cls = "PredictionTuple"
    /\ adapter.stage = "dict"
    /\ adapter' = IF HasKeys(adapter.dict, PREDICTIONS_HEADER)
                  THEN [adapter EXCEPT !.back = PredictionTuple_from_dict(adapter.dict),
                                       !.stage = "back"]
                  ELSE [adapter EXCEPT !.stage = "KeyError"]
    /\ UNCHANGED <<files, op, before, loaded>>

NextTuple ==
    \/ MappingTupleAsDict
    \/ MappingTupleFromDict
    \/ PredictionTupleAsDict
    \/ PredictionTupleFromDict

SpecTuple == InitTuple /\ [][NextTuple]_vars

-----------------------------------------------------------------------------
(* Vocabulary of the properties *)

\* the records of a table, as load reads them back
Records(fs, path) == _load_table(fs[path]).value

\* The pieces of a text from character start on, between the occurrences
\* of a separator, as text.split(sep) gives them.
RECURSIVE SplitFrom(_, _, _)
SplitFrom(text, sep, start) ==
    LET seps == {i \in start..Len(text) : text[i] = sep}
    IN  IF seps = {}
        THEN <<SubSeq(text, start, Len(text))>>
        ELSE LET i == CHOOSE k \in seps : \A h \in seps : k <= h
             IN  <<SubSeq(text, start, i - 1)>> \o SplitFrom(text, sep, i + 1)

\* the lines of a file as they are written, each cut at its tabs, without
\* any reading of double quotes
WrittenRows(text) ==
    LET lines == SplitFrom(text, NL, 1)
    IN  [i \in 1..(Len(lines) - 1) |-> SplitFrom(lines[i], TAB, 1)]

\* how many times r stands in the list s
Count(s, r) == Cardinality({i \in 1..Len(s) : s[i] = r})

Elements(s) == {s[i] : i \in 1..Len(s)}

\* the record has the seven columns of the key
Keyed(r) == HasKeys(r, SortColumns)

\* non-decreasing under the lexicographic order of the 7-field key; a
\* record without the columns of the key is compared with none
IsSorted(s) ==
    \A i \in 1..Len(s) : \A j \in (i + 1)..Len(s) :
        (Keyed(s[i]) /\ Keyed(s[j])) =>
            ~TupleLess(mapping_sort_key(s[j]), mapping_sort_key(s[i]))

\* no two rows of one canonical key
DistinctKeys(s) ==
    \A i \in 1..Len(s) : \A j \in (i + 1)..Len(s) :
        (Keyed(s[i]) /\ Keyed(s[j])) =>
            get_canonical_tuple(s[i]) # get_canonical_tuple(s[j])

WriteOps == {"write_true_mappings", "write_false_mappings",
             "write_unsure_mappings", "write_predictions"}

AppendOps == {"append_true_mappings", "append_false_mappings",
              "append_unsure_mappings", "append_predictions"}

LintOps == {"lint_true_mappings", "lint_false_mappings",
            "lint_unsure_mappings", "lint_predictions"}

\* the table an operation writes
PathOf(name) ==
    CASE name \in {"write_true_mappings", "append_true_mappings",
                   "lint_true_mappings"} -> TRUE_MAPPINGS_PATH
      [] name \in {"write_false_mappings", "append_false_mappings",
                   "lint_false_mappings"} -> FALSE_MAPPINGS_PATH
      [] name \in {"write_unsure_mappings", "append_unsure_mappings",
                   "lint_unsure_mappings"} -> UNSURE_PATH
      [] OTHER -> PREDICTIONS_PATH

\* the canonical keys in the true mappings, the false mappings and the
\* predictions when the call was made
KnownKeys ==
    {get_canonical_tuple(r) :
        r \in {q \in Elements(Records(before, TRUE_MAPPINGS_PATH))
                      \cup Elements(Records(before, FALSE_MAPPINGS_PATH))
                      \cup Elements(Records(before, PREDICTIONS_PATH)) : Keyed(q)}}

\* whether the call writes the incoming record p
Written(p) ==
    ~(op.name = "append_predictions" /\ op.deduplicate
        /\ get_canonical_tuple(p) \in KnownKeys)

\* the incoming records of an append that are to be written, in the order given
Incoming == SelectSeq(op.records, Written)

\* the tables the call does not write are as they were
OthersUnchanged(path) == \A q \in Paths \ {path} : files[q] = before[q]

-----------------------------------------------------------------------------
(* Properties *)

\* C1: append_predictions(records, deduplicate=True) adds an incoming
\* record p to the predictions table if and only if the canonical key of p
\* is the key of no record that was in the true mappings, the false
\* mappings or the predictions when the call was made; the unsure table
\* plays no part, and a record of a known key is dropped whatever its names
\* and confidence.  Counted per record: the table gains every occurrence
\* of p in the batch when p's key was unknown and none otherwise, and it
\* gains nothing else.
C1_DedupAgainstKnown ==
    (op.name = "append_predictions" /\ op.deduplicate) =>
        /\ op.raised = NoError
        /\ \A p \in Elements(op.records) :
             Count(Records(files, PREDICTIONS_PATH), p)
                 - Count(Records(before, PREDICTIONS_PATH), p)
               = IF get_canonical_tuple(p) \in KnownKeys
                 THEN 0
                 ELSE Count(op.records, p)
        /\ Len(Records(files, PREDICTIONS_PATH)) - Len(Records(before, PREDICTIONS_PATH))
               = Cardinality({i \in 1..Len(op.records) :
                     get_canonical_tuple(op.records[i]) \notin KnownKeys})

\* C2: after any write-path operation (write, append with or
\* without sort, lint, filter_predictions) the records of the table as load
\* reads them back are sorted by the 7-field key.
C2_SortedAfterAnyWrite ==
    op.name \in WriteOps \cup AppendOps \cup LintOps \cup {"filter_predictions"} =>
        IsSorted(Records(files, PathOf(op.name)))

\* C3: lint is idempotent on every table: once a lint call has returned, a
\* second lint call of the same table leaves every file as it is,
\* character for character.
C3_LintIdempotent ==
    /\ op.name = "lint_true_mappings" => lint_true_mappings(files).files = files
    /\ op.name = "lint_false_mappings" => lint_false_mappings(files).files = files
    /\ op.name = "lint_unsure_mappings" => lint_unsure_mappings(files).files = files
    /\ op.name = "lint_predictions" => lint_predictions(files).files = files

\* C4: after filter_predictions(F) the predictions table holds exactly the
\* records p of the table before for which F has no entry at
\* F[source prefix][target prefix][source identifier] or that entry is not
\* p's target identifier, each as often as before; a level missing in F
\* excludes nothing and raises nothing.
C4_FilterExact ==
    op.name = "filter_predictions" =>
        LET F == op.custom_filter
            Excluded(p) ==
                /\ p[Str("source prefix")] \in DOMAIN F
                /\ p[Str("target prefix")] \in DOMAIN F[p[Str("source prefix")]]
                /\ p[Str("source identifier")]
                       \in DOMAIN F[p[Str("source prefix")]][p[Str("target prefix")]]
                /\ F[p[Str("source prefix")]][p[Str("target prefix")]]
                        [p[Str("source identifier")]]
                       = p[Str("target identifier")]
            was == Records(before, PREDICTIONS_PATH)
            now == Records(files, PREDICTIONS_PATH)
        IN  /\ op.raised = NoError
            /\ \A p \in Elements(was) \cup Elements(now) :
                 Count(now, p) = IF Excluded(p) THEN 0 ELSE Count(was, p)
            /\ OthersUnchanged(PREDICTIONS_PATH)

\* the rows the reader yields for the file that was loaded
LoadedRows == csv_reader(files[loaded.path])

\* the file that was loaded has a header and a data row whose field count
\* is not the header's
Malformed ==
    /\ LoadedRows # <<>>
    /\ \E i \in 2..Len(LoadedRows) : Len(LoadedRows[i]) # Len(LoadedRows[1])

\* C5 as stated: loading a table in which a data row has more or fewer
\* fields than the header fails with a parse error and returns no list.
C5_MalformedRowFails ==
    (loaded.path # "" /\ Malformed) => loaded.raised \notin {NoError, "StopIteration"}

\* C5 as amended: loading a table that has a header line never fails on the
\* field counts: it returns one record per data row, in file order, that
\* pairs the first n header columns with the first n fields of the row,
\* where n is the smaller of the two counts; fields beyond the header are
\* dropped and columns beyond the row are absent from the record.
C5_RowsZippedWithHeader ==
    (loaded.path # "" /\ LoadedRows # <<>>) =>
        LET header == LoadedRows[1]
        IN  /\ loaded.raised = NoError
            /\ Len(loaded.value) = Len(LoadedRows) - 1
            /\ \A i \in 1..Len(loaded.value) :
                 LET row == LoadedRows[i + 1]
                     n == Min(Len(header), Len(row))
                 IN  /\ DOMAIN loaded.value[i] = {header[j] : j \in 1..n}
                     /\ \A j \in 1..n : loaded.value[i][header[j]] = row[j]

\* a load of a file with a row longer than the header and a row shorter
\* than it
C5_Witness ==
    /\ loaded.path # ""
    /\ loaded.raised = NoError
    /\ \E i \in 2..Len(LoadedRows) : Len(LoadedRows[i]) > Len(LoadedRows[1])
    /\ \E i \in 2..Len(LoadedRows) :
          /\ Len(LoadedRows[i]) < Len(LoadedRows[1])
          /\ Len(LoadedRows[i]) > 0

\* C6: append(records, sort=True) ends with the files as one write of the
\* rows the table had, followed by the rows appended (for the predictions,
\* those that survive the deduplication), leaves them: the header once,
\* every earlier row and every appended row as often as it came, nothing
\* else, in non-decreasing key order.
C6_AppendSortIsOneWrite ==
    (op.name \in AppendOps /\ op.sort) =>
        LET path == PathOf(op.name)
            was == Records(before, path)
            now == Records(files, path)
            rows == csv_reader(files[path])
        IN  /\ op.raised = NoError
            /\ files = [before EXCEPT
                          ![path] = _write_helper(HeaderOf(path), was \o Incoming,
                                                  @, "w").file]
            /\ rows[1] = HeaderOf(path)
            /\ \A i \in 2..Len(rows) : rows[i] # HeaderOf(path)
            /\ \A r \in Elements(was) \cup Elements(Incoming) \cup Elements(now) :
                 Count(now, r) = Count(was, r) + Count(Incoming, r)
            /\ IsSorted(now)

\* C7: MappingTuple.from_dict(x.as_dict()) = x and
\* PredictionTuple.from_dict(y.as_dict()) = y, and as_dict puts the field at
\* each position under the column name at that position of the schema
\* header.
C7_RoundTrip ==
    LET header == IF adapter.cls = "PredictionTuple"
                  THEN PREDICTIONS_HEADER
                  ELSE MAPPINGS_HEADER
    IN  /\ adapter.stage # "KeyError"
        /\ adapter.stage \in {"dict", "back"} =>
              /\ DOMAIN adapter.dict = {header[i] : i \in 1..Len(header)}
              /\ \A i \in 1..Len(header) : adapter.dict[header[i]] = adapter.tuple[i]
        /\ adapter.stage = "back" => adapter.back = adapter.tuple

\* a prediction tuple whose confidence and source differ, taken through
\* as_dict and from_dict
C7_Witness ==
    /\ adapter.cls = "PredictionTuple"
    /\ adapter.stage = "back"
    /\ adapter.tuple[9] # adapter.tuple[10]
    /\ adapter.tuple[2] # adapter.tuple[3]

\* C8: lint only reorders: every record stands in the table after lint as
\* often as before it, rows of equal key included, and the other tables are
\* not touched.
C8_LintKeepsRecords ==
    op.name \in LintOps =>
        LET was == Records(before, PathOf(op.name))
            now == Records(files, PathOf(op.name))
        IN  /\ Len(now) = Len(was)
            /\ \A r \in Elements(was) \cup Elements(now) : Count(now, r) = Count(was, r)
            /\ OthersUnchanged(PathOf(op.name))

\* C9: append(records, sort=False) leaves the text the file had, its header
\* line and its data lines, as it was and in its order, writes no second
\* header line, and puts after it one line for each appended record (for the
\* predictions, each record that survives the deduplication), these lines in
\* non-decreasing order of their keys among themselves; the other tables
\* are not touched.  The lines are taken as they are written.
C9_AppendAfterExisting ==
    (op.name \in AppendOps /\ ~op.sort) =>
        LET path == PathOf(op.name)
            old == WrittenRows(before[path])
            new == WrittenRows(files[path])
            added == [i \in 1..(Len(new) - Len(old)) |->
                         dict_zip(HeaderOf(path), new[Len(old) + i])]
        IN  /\ op.raised = NoError
            /\ Len(files[path]) >= Len(before[path])
            /\ SubSeq(files[path], 1, Len(before[path])) = before[path]
            /\ Len(new) = Len(old) + Len(Incoming)
            /\ SubSeq(new, 1, Len(old)) = old
            /\ \A i \in (Len(old) + 1)..Len(new) : new[i] # HeaderOf(path)
            /\ \A r \in Elements(Incoming) \cup Elements(added) :
                 Count(added, r) = Count(Incoming, r)
            /\ IsSorted(added)
            /\ OthersUnchanged(path)

\* the calls C10 is about
KeepsPredictionsDistinct ==
    \/ op.name \in {"lint_predictions", "filter_predictions"}
    \/ op.name = "append_predictions" /\ op.deduplicate

\* C10: when the rows of the predictions table have pairwise distinct
\* canonical keys, they still have after a deduplicating append of any
\* batch, a lint or a filter.
C10_DistinctAfterAnyBatch ==
    (KeepsPredictionsDistinct /\ DistinctKeys(Records(before, PREDICTIONS_PATH))) =>
        DistinctKeys(Records(files, PREDICTIONS_PATH))

=============================================================================
